---- MODULE Spec2Model ----
(***************************************************************************)
(* RSS ingestion pipeline of src/sources/rss_client.py.                    *)
(*                                                                         *)
(* Text is a sequence of one-character strings, so that strip(), lower(),  *)
(* the "|"-joined identity key, the regular expressions and strptime are   *)
(* computed character by character as Python computes them.                *)
(***************************************************************************)
EXTENDS Integers, Sequences, FiniteSets, TLC

-----------------------------------------------------------------------------
(* Characters and the str methods the module uses                          *)

UpperCase == <<"A","B","C","D","E","F","G","H","I","J","K","L","M","N","O","P","Q","R","S","T","U","V","W","X","Y","Z">>

LowerCase == <<"a","b","c","d","e","f","g","h","i","j","k","l","m","n","o","p","q","r","s","t","u","v","w","x","y","z">>

DigitChars == <<"0","1","2","3","4","5","6","7","8","9">>

SetMin(S) == CHOOSE x \in S : \A y \in S : x <= y

SetMax(S) == CHOOSE x \in S : \A y \in S : x >= y

UpperSet == {"A","B","C","D","E","F","G","H","I","J","K","L","M","N","O","P","Q","R","S","T","U","V","W","X","Y","Z"}

LowerSet == {"a","b","c","d","e","f","g","h","i","j","k","l","m","n","o","p","q","r","s","t","u","v","w","x","y","z"}

DigitSet == {"0","1","2","3","4","5","6","7","8","9"}

IsUpper(c) == c \in UpperSet

IsLower(c) == c \in LowerSet

IsLetter(c) == IsLower(c) \/ IsUpper(c)

IsDigit(c) == c \in DigitSet

\* str.isspace / regex \s on the characters of the model's alphabet
IsSpace(c) == c = " " \/ c = "\n" \/ c = "\t"

RECURSIVE IndexOf(_, _, _)
\* position of character c in the tuple t at or after position n
IndexOf(t, c, n) == IF t[n] = c THEN n ELSE IndexOf(t, c, n + 1)

\* str.lower on one character
LowerChar(c) == IF IsUpper(c) THEN LowerCase[IndexOf(UpperCase, c, 1)] ELSE c

\* str.lower
lower(s) == [n \in 1..Len(s) |-> LowerChar(s[n])]

RECURSIVE SkipSpaceRight(_, _)
\* first position at or after p that holds no whitespace (Len(s) + 1 when none)
SkipSpaceRight(s, p) ==
    IF p <= Len(s) /\ IsSpace(s[p]) THEN SkipSpaceRight(s, p + 1) ELSE p

RECURSIVE SkipSpaceLeft(_, _)
\* last position at or before p that holds no whitespace (0 when none)
SkipSpaceLeft(s, p) ==
    IF p >= 1 /\ IsSpace(s[p]) THEN SkipSpaceLeft(s, p - 1) ELSE p

\* str.strip with no argument
strip(s) == SubSeq(s, SkipSpaceRight(s, 1), SkipSpaceLeft(s, Len(s)))

\* str.lstrip with no argument
lstrip(s) == SubSeq(s, SkipSpaceRight(s, 1), Len(s))

RECURSIVE SameFrom(_, _, _, _)
\* lit[j..] equals s[p+j-1..], character by character
SameFrom(lit, s, p, j) ==
    \/ j > Len(lit)
    \/ s[p + j - 1] = lit[j] /\ SameFrom(lit, s, p, j + 1)

\* s[p:p+len(lit)] == lit
LitAt(lit, s, p) ==
    /\ p >= 1
    /\ p + Len(lit) - 1 <= Len(s)
    /\ SameFrom(lit, s, p, 1)

\* `sub in s`
Contains(sub, s) == \E p \in 1..(Len(s) + 1) : LitAt(sub, s, p)

\* Python's None, and the value of a failed search / parse; neither is a text
None == <<"<None>">>

NoMatch == [matched |-> FALSE]

\* truthiness of a str-or-None value
Truthy(v) == v # None /\ v # <<>>

\* dict.get(key, default)
get(entry, key, default) == IF key \in DOMAIN entry THEN entry[key] ELSE default

NotCommaNewline(c) == c # "," /\ c # "\n"

LetterOrSpace(c) == IsLetter(c) \/ IsSpace(c)

\* the character classes of the patterns: \s, [a-z] (IGNORECASE),
\* [a-z\s] (IGNORECASE) and [^,\n]
InClass(class, c) ==
    CASE class = "space"         -> IsSpace(c)
      [] class = "letter"        -> IsLetter(c)
      [] class = "letterOrSpace" -> LetterOrSpace(c)
      [] class = "notCommaNewline" -> NotCommaNewline(c)

RECURSIVE RunEnd(_, _, _)
\* last index e >= p-1 such that every character of s[p..e] is in the
\* class; a greedy character-class repetition started at p ends there
RunEnd(s, p, class) ==
    IF p <= Len(s) /\ InClass(class, s[p]) THEN RunEnd(s, p + 1, class) ELSE p - 1

-----------------------------------------------------------------------------
(* _is_valid_rss_url: urllib.parse.urlparse, scheme and netloc only        *)

IsSchemeChar(c) == IsLetter(c) \/ IsDigit(c) \/ c \in {"+", "-", "."}

RECURSIVE FirstOf(_, _, _)
\* first position at or after p whose character is one of chars, 0 when none
FirstOf(s, p, chars) ==
    IF p > Len(s) THEN 0
    ELSE IF s[p] \in chars THEN p ELSE FirstOf(s, p + 1, chars)

RemoveTabsNewlines(s) == SelectSeq(s, LAMBDA c : c \notin {"\t", "\n"})

HasScheme(u, i) ==
    /\ i > 1
    /\ IsLetter(u[1])
    /\ \A j \in 1..(i - 1) : IsSchemeChar(u[j])

NetlocEnd(rest, d) == IF d = 0 THEN Len(rest) ELSE d - 1

NetlocOf(rest) ==
    IF LitAt(<<"/","/">>, rest, 1)
    THEN SubSeq(rest, 3, NetlocEnd(rest, FirstOf(rest, 3, {"/", "?", "#"})))
    ELSE <<>>

SplitResult(scheme, netloc) ==
    [raises |-> (FirstOf(netloc, 1, {"["}) # 0) # (FirstOf(netloc, 1, {"]"}) # 0),
     scheme |-> scheme,
     netloc |-> netloc]

SplitAt(u, i) ==
    IF HasScheme(u, i)
    THEN SplitResult(lower(SubSeq(u, 1, i - 1)), NetlocOf(SubSeq(u, i + 1, Len(u))))
    ELSE SplitResult(<<>>, NetlocOf(u))

SplitAtFirstColon(u) == SplitAt(u, FirstOf(u, 1, {":"}))

\* urlsplit: leading whitespace is stripped and tabs and newlines are
\* removed, the scheme is the text before the first ":" when it starts with
\* a letter and holds only scheme characters, the netloc is what follows
\* "//" up to the first of "/?#"; an unbalanced "[" or "]" in the netloc
\* raises ValueError
urlparse(url) == SplitAtFirstColon(RemoveTabsNewlines(lstrip(url)))

\* all([result.scheme, result.netloc]); ValueError gives False
SchemeAndNetloc(result) ==
    IF result.raises THEN FALSE
    ELSE result.scheme # <<>> /\ result.netloc # <<>>

\* validation that looks at the scheme only
is_valid_rss_url_scheme_only(url) ==
    ~urlparse(url).raises /\ urlparse(url).scheme # <<>>

is_valid_rss_url(url) == SchemeAndNetloc(urlparse(url))

-----------------------------------------------------------------------------
(* The regular expressions of LOCATION_PATTERNS and DEADLINE_PATTERNS,     *)
(* matched as re.search(pattern, content, re.IGNORECASE) matches them      *)

\* Under IGNORECASE a literal is compared with the lower-cased content ls.
\* r"<label>\s*([^,\n]+)" tried at position p.  \s* is greedy; when the
\* character after the whitespace run is "," or the end of the text, the
\* engine backtracks and the group takes the last whitespace character that
\* is not a newline
RECURSIVE LastNotNewline(_, _, _)
LastNotNewline(s, a, j) ==
    IF j < a THEN 0 ELSE IF s[j] # "\n" THEN j ELSE LastNotNewline(s, a, j - 1)

LabelGroup(s, p, b, e, bk) ==
    IF b <= Len(s) /\ s[b] # ","
    THEN [matched |-> TRUE, hasGroup |-> TRUE,
          group0 |-> SubSeq(s, p, e), group1 |-> SubSeq(s, b, e)]
    ELSE IF bk # 0
    THEN [matched |-> TRUE, hasGroup |-> TRUE,
          group0 |-> SubSeq(s, p, bk), group1 |-> SubSeq(s, bk, bk)]
    ELSE NoMatch

\* a: first position after the label, b: first position after the run of
\* whitespace that follows it
LabelTail(s, p, a, b) ==
    LabelGroup(s, p, b, RunEnd(s, b, "notCommaNewline"), LastNotNewline(s, a, b - 1))

LabelAt(label, s, ls, p) ==
    IF ~LitAt(label, ls, p) THEN NoMatch
    ELSE LabelTail(s, p, p + Len(label), RunEnd(s, p + Len(label), "space") + 1)

RECURSIVE FirstAlt(_, _, _, _)
FirstAlt(alts, ls, p, n) ==
    IF n > Len(alts) THEN 0
    ELSE IF LitAt(alts[n], ls, p) THEN n ELSE FirstAlt(alts, ls, p, n + 1)

KeywordMatch(alts, s, p, n) ==
    IF n = 0 THEN NoMatch
    ELSE [matched |-> TRUE, hasGroup |-> FALSE,
          group0 |-> SubSeq(s, p, p + Len(alts[n]) - 1), group1 |-> <<>>]

\* r"Remote|Work from home|WFH" tried at position p: no group
KeywordAt(alts, s, ls, p) == KeywordMatch(alts, s, p, FirstAlt(alts, ls, p, 1))

\* q: end of the run of letters, r: first position after ",\s*"
CityStateGroup(s, p, q, r) ==
    IF /\ q >= p + 1
       /\ q + 1 <= Len(s) /\ s[q + 1] = ","
       /\ r + 1 <= Len(s) /\ IsLetter(s[r]) /\ IsLetter(s[r + 1])
    THEN [matched |-> TRUE, hasGroup |-> TRUE,
          group0 |-> SubSeq(s, p, r + 1), group1 |-> SubSeq(s, p, r + 1)]
    ELSE NoMatch

CityStateTail(s, p, q) == CityStateGroup(s, p, q, RunEnd(s, q + 2, "space") + 1)

\* r"([A-Z][a-z]+,\s*[A-Z]{2})" tried at position p (letters of either case
\* under IGNORECASE)
CityStateAt(s, p) ==
    IF ~IsLetter(s[p]) THEN NoMatch
    ELSE CityStateTail(s, p, RunEnd(s, p + 1, "letter"))

\* q: end of the first run, r: first position after ",\s*", e: end of the
\* second run
CityCountryGroup(s, p, q, r, e) ==
    IF /\ q >= p + 1
       /\ q + 1 <= Len(s) /\ s[q + 1] = ","
       /\ r <= Len(s) /\ IsLetter(s[r])
       /\ e >= r + 1
    THEN [matched |-> TRUE, hasGroup |-> TRUE,
          group0 |-> SubSeq(s, p, e), group1 |-> SubSeq(s, p, e)]
    ELSE NoMatch

CityCountrySecond(s, p, q, r) ==
    CityCountryGroup(s, p, q, r, RunEnd(s, r + 1, "letterOrSpace"))

CityCountryTail(s, p, q) == CityCountrySecond(s, p, q, RunEnd(s, q + 2, "space") + 1)

\* r"([A-Z][a-z\s]+,\s*[A-Z][a-z\s]+)" tried at position p
CityCountryAt(s, p) ==
    IF ~IsLetter(s[p]) THEN NoMatch
    ELSE CityCountryTail(s, p, RunEnd(s, p + 1, "letterOrSpace"))

MatchAt(pattern, s, ls, p) ==
    CASE pattern.kind = "label"       -> LabelAt(pattern.label, s, ls, p)
      [] pattern.kind = "keyword"     -> KeywordAt(pattern.alts, s, ls, p)
      [] pattern.kind = "citystate"   -> CityStateAt(s, p)
      [] pattern.kind = "citycountry" -> CityCountryAt(s, p)

RECURSIVE SearchFrom(_, _, _, _)

\* the match m found at position p, or the search from the next position
MatchOrNext(m, pattern, s, ls, p) ==
    IF m.matched THEN m ELSE SearchFrom(pattern, s, ls, p + 1)

SearchFrom(pattern, s, ls, p) ==
    IF p > Len(s) THEN NoMatch
    ELSE MatchOrNext(MatchAt(pattern, s, ls, p), pattern, s, ls, p)

\* re.search(pattern, s, re.IGNORECASE): the match at the leftmost position
\* where the pattern matches
re_search(pattern, s) == SearchFrom(pattern, s, lower(s), 1)

\* the literals are written in lower case, as IGNORECASE compares them
LOCATION_PATTERNS ==
    << [kind |-> "label", label |-> <<"l","o","c","a","t","i","o","n",":">>],
       [kind |-> "label", label |-> <<"b","a","s","e","d"," ","i","n",":">>],
       [kind |-> "label", label |-> <<"o","f","f","i","c","e",":">>],
       [kind |-> "keyword", alts |-> << <<"r","e","m","o","t","e">>, <<"w","o","r","k"," ","f","r","o","m"," ","h","o","m","e">>, <<"w","f","h">> >>],
       [kind |-> "citystate"],
       [kind |-> "citycountry"] >>

DEADLINE_PATTERNS ==
    << [kind |-> "label", label |-> <<"a","p","p","l","y"," ","b","y",":">>],
       [kind |-> "label", label |-> <<"d","e","a","d","l","i","n","e",":">>],
       [kind |-> "label", label |-> <<"a","p","p","l","i","c","a","t","i","o","n","s"," ","c","l","o","s","e",":">>] >>

-----------------------------------------------------------------------------
(* datetime.strptime for the four formats of _extract_deadline, and        *)
(* date.isoformat                                                          *)

FullMonths ==
    << <<"j","a","n","u","a","r","y">>, <<"f","e","b","r","u","a","r","y">>, <<"m","a","r","c","h">>, <<"a","p","r","i","l">>, <<"m","a","y">>, <<"j","u","n","e">>, <<"j","u","l","y">>,
       <<"a","u","g","u","s","t">>, <<"s","e","p","t","e","m","b","e","r">>, <<"o","c","t","o","b","e","r">>, <<"n","o","v","e","m","b","e","r">>, <<"d","e","c","e","m","b","e","r">> >>

AbbrMonths ==
    << <<"j","a","n">>, <<"f","e","b">>, <<"m","a","r">>, <<"a","p","r">>, <<"m","a","y">>, <<"j","u","n">>, <<"j","u","l">>, <<"a","u","g">>, <<"s","e","p">>,
       <<"o","c","t">>, <<"n","o","v">>, <<"d","e","c">> >>

DigitVal(c) == IndexOf(DigitChars, c, 1) - 1

AllDigits(s) == \A i \in 1..Len(s) : IsDigit(s[i])

\* int() of a text of one to four digits
ToInt(s) ==
    CASE Len(s) = 1 -> DigitVal(s[1])
      [] Len(s) = 2 -> 10 * DigitVal(s[1]) + DigitVal(s[2])
      [] Len(s) = 3 -> 100 * DigitVal(s[1]) + 10 * DigitVal(s[2]) + DigitVal(s[3])
      [] Len(s) = 4 -> 1000 * DigitVal(s[1]) + 100 * DigitVal(s[2])
                        + 10 * DigitVal(s[3]) + DigitVal(s[4])

NoDate == [ok |-> FALSE]

\* %Y: (?P<Y>\d\d\d\d)
IsYearText(s) == Len(s) = 4 /\ AllDigits(s)

\* %m: (?P<m>1[0-2]|0[1-9]|[1-9])
IsMonthText(s) ==
    /\ Len(s) \in {1, 2}
    /\ AllDigits(s)
    /\ ToInt(s) \in 1..12

\* %d: (?P<d>3[0-1]|[1-2]\d|0[1-9]|[1-9]| [1-9])
IsDayText(s) ==
    \/ Len(s) \in {1, 2} /\ AllDigits(s) /\ ToInt(s) \in 1..31
    \/ Len(s) = 2 /\ s[1] = " " /\ IsDigit(s[2]) /\ s[2] # "0"

DayVal(s) == IF s[1] = " " THEN DigitVal(s[2]) ELSE ToInt(s)

IsLeap(y) == y % 4 = 0 /\ (y % 100 # 0 \/ y % 400 = 0)

DaysInMonth(y, m) ==
    CASE m \in {1, 3, 5, 7, 8, 10, 12} -> 31
      [] m \in {4, 6, 9, 11} -> 30
      [] m = 2 -> IF IsLeap(y) THEN 29 ELSE 28

\* the datetime constructor: ValueError for year 0 or a day the month lacks
MakeDate(y, m, d) ==
    IF y >= 1 /\ m \in 1..12 /\ d >= 1 /\ d <= DaysInMonth(y, m)
    THEN [ok |-> TRUE, year |-> y, month |-> m, day |-> d]
    ELSE NoDate

\* the pieces of s between the occurrences of the separator character
Positions(s, c) == {i \in 1..Len(s) : s[i] = c}

NumericFields(f1, f2, f3, yearFirst) ==
    IF yearFirst
    THEN IF IsYearText(f1) /\ IsMonthText(f2) /\ IsDayText(f3)
         THEN MakeDate(ToInt(f1), ToInt(f2), DayVal(f3))
         ELSE NoDate
    ELSE IF IsMonthText(f1) /\ IsDayText(f2) /\ IsYearText(f3)
         THEN MakeDate(ToInt(f3), ToInt(f1), DayVal(f2))
         ELSE NoDate

SplitNumeric(s, i, j, yearFirst) ==
    NumericFields(SubSeq(s, 1, i - 1), SubSeq(s, i + 1, j - 1),
                  SubSeq(s, j + 1, Len(s)), yearFirst)

\* "%Y-%m-%d" and "%m/%d/%Y": three fields around two separators
ParseNumeric(s, sep, yearFirst) ==
    IF Cardinality(Positions(s, sep)) # 2 THEN NoDate
    ELSE SplitNumeric(s, SetMin(Positions(s, sep)), SetMax(Positions(s, sep)), yearFirst)

\* the months whose name starts the text and is followed by whitespace
NamedMonths(s, ls, names) ==
    {k \in 1..12 : /\ LitAt(names[k], ls, 1)
                   /\ Len(s) > Len(names[k])
                   /\ IsSpace(s[Len(names[k]) + 1])}

\* dt: the day text, yt: the year text; b: end of the whitespace after the
\* name, c: the comma, e: end of the whitespace after the comma
NamedFields(k, dt, yt, b, c, e) ==
    IF /\ c > b
       /\ Len(dt) \in {1, 2} /\ AllDigits(dt) /\ ToInt(dt) \in 1..31
       /\ e >= c + 1
       /\ IsYearText(yt)
    THEN MakeDate(ToInt(yt), k, ToInt(dt))
    ELSE NoDate

SplitNamed(s, k, b, c, e) ==
    NamedFields(k, SubSeq(s, b + 1, c - 1), SubSeq(s, e + 1, Len(s)), b, c, e)

NamedFrom(s, k, a, c) ==
    SplitNamed(s, k, RunEnd(s, a, "space"), c, RunEnd(s, c + 1, "space"))

NamedAt(s, names, hit, at) ==
    IF hit = {} \/ Cardinality(at) # 1 THEN NoDate
    ELSE NamedFrom(s, SetMin(hit), Len(names[SetMin(hit)]) + 1, SetMin(at))

\* "%B %d, %Y" and "%b %d, %Y": month name, \s+, day, ",", \s+, year; the
\* name is matched case-insensitively and must be followed by whitespace
ParseNamed(s, names) ==
    NamedAt(s, names, NamedMonths(s, lower(s), names), Positions(s, ","))

DATE_FORMATS == << "%Y-%m-%d", "%m/%d/%Y", "%B %d, %Y", "%b %d, %Y" >>

\* datetime.strptime(text, date_format); NoDate stands for ValueError
strptime(text, date_format) ==
    CASE date_format = "%Y-%m-%d"  -> ParseNumeric(text, "-", TRUE)
      [] date_format = "%m/%d/%Y"  -> ParseNumeric(text, "/", FALSE)
      [] date_format = "%B %d, %Y" -> ParseNamed(text, FullMonths)
      [] date_format = "%b %d, %Y" -> ParseNamed(text, AbbrMonths)

DigitText(n, width) ==
    [i \in 1..width |-> DigitChars[((n \div (10 ^ (width - i))) % 10) + 1]]

\* date.isoformat: YYYY-MM-DD, zero padded
isoformat(d) ==
    DigitText(d.year, 4) \o <<"-">> \o DigitText(d.month, 2) \o <<"-">> \o DigitText(d.day, 2)

-----------------------------------------------------------------------------
(* Field extraction                                                        *)

\* entry.get("summary", "") + " " + entry.get("description", ""); None in
\* either field makes the concatenation raise TypeError
ContentRaises(entry) ==
    get(entry, "summary", <<>>) = None \/ get(entry, "description", <<>>) = None

Content(entry) ==
    get(entry, "summary", <<>>) \o <<" ">> \o get(entry, "description", <<>>)

LOCATION_WORDS == << <<"l","o","c","a","t","i","o","n">>, <<"c","i","t","y">>, <<"r","e","m","o","t","e">>, <<"o","f","f","i","c","e">> >>

\* the loop that lets a later pattern override an earlier one
LastMatch(patterns, content, n) ==
    LET hit == {m \in n..Len(patterns) : re_search(patterns[m], content).matched}
    IN  IF hit = {} THEN NoMatch ELSE re_search(patterns[SetMax(hit)], content)

RECURSIVE FirstMatch(_, _, _)

\* `if match:` - the match of the n-th pattern, or the loop's next turn
MatchOrNextPattern(match, patterns, content, n) ==
    IF match.matched THEN match ELSE FirstMatch(patterns, content, n + 1)

\* `for pattern in PATTERNS: match = re.search(...); if match:` - the match
\* of the first pattern, from the n-th on, that matches
FirstMatch(patterns, content, n) ==
    IF n > Len(patterns) THEN NoMatch
    ELSE MatchOrNextPattern(re_search(patterns[n], content), patterns, content, n)

\* first tag whose lower-cased term contains a location word, 0 when none
FirstLocationTag(tags) ==
    LET hit == {t \in 1..Len(tags) :
                  \E w \in 1..Len(LOCATION_WORDS) :
                      Contains(LOCATION_WORDS[w], lower(tags[t]))}
    IN  IF hit = {} THEN 0 ELSE SetMin(hit)

\* the tag fallback: the stripped term of the first such tag
LocationFromTags(entry, t) == IF t # 0 THEN strip(entry["tags"][t]) ELSE <<>>

\* `match.group(1) if match.groups() else match.group(0)`, else the tags
LocationFromMatch(entry, match) ==
    IF match.matched
    THEN strip(IF match.hasGroup THEN match.group1 ELSE match.group0)
    ELSE LocationFromTags(entry,
             IF "tags" \in DOMAIN entry THEN FirstLocationTag(entry["tags"]) ELSE 0)

extract_location(entry) ==
    IF "location" \in DOMAIN entry /\ Truthy(entry["location"])
    THEN strip(entry["location"])
    ELSE LocationFromMatch(entry, FirstMatch(LOCATION_PATTERNS, Content(entry), 1))

RECURSIVE FirstParse(_, _)

\* the date parsed with the n-th format, or the loop's next turn
ParsedOrNextFormat(parsed_date, text, n) ==
    IF parsed_date.ok THEN parsed_date ELSE FirstParse(text, n + 1)

\* `for date_format in [...]: try: strptime ... except ValueError: continue`
FirstParse(text, n) ==
    IF n > Len(DATE_FORMATS) THEN NoDate
    ELSE ParsedOrNextFormat(strptime(text, DATE_FORMATS[n]), text, n)

\* the ISO date when a format parsed the text, else the text as it is
IsoOrRaw(deadline_text, parsed_date) ==
    IF parsed_date.ok THEN isoformat(parsed_date) ELSE deadline_text

DeadlineFromText(deadline_text) == IsoOrRaw(deadline_text, FirstParse(deadline_text, 1))

DeadlineFromMatch(match) ==
    IF ~match.matched THEN <<>> ELSE DeadlineFromText(strip(match.group1))

extract_deadline(entry) ==
    DeadlineFromMatch(FirstMatch(DEADLINE_PATTERNS, Content(entry), 1))

-----------------------------------------------------------------------------
(* Record construction and the identity key                                *)

\* `a or b`: a when a is truthy, else b
Or(a, b) == IF Truthy(a) THEN a ELSE b

\* " | ".join(parts)
JoinNotes(parts) ==
    CASE Len(parts) = 0 -> <<>>
      [] Len(parts) = 1 -> parts[1]
      [] Len(parts) = 2 -> parts[1] \o <<" ","|"," ">> \o parts[2]

\* notes_parts: the stripped summary, then the value of the first content
\* item when it differs from the summary ("content" is feedparser's list of
\* dicts, modelled as the list of their "value" texts)
NotesParts(entry) ==
    LET summary      == get(entry, "summary", None)
        content      == get(entry, "content", <<>>)
        content_text == content[1]
        first        == IF Truthy(summary) THEN << strip(summary) >> ELSE <<>>
        second       == IF /\ content # <<>>
                           /\ content_text # <<>>
                           /\ strip(content_text) # strip(get(entry, "summary", <<>>))
                        THEN << strip(content_text) >> ELSE <<>>
    IN  first \o second

\* _create_job_record raises (AttributeError / TypeError) when a field it
\* calls a str method on holds None
create_job_record_raises(entry) ==
    \/ get(entry, "title", <<>>) = None
    \/ get(entry, "link", <<>>) = None
    \/ ContentRaises(entry)

SOURCE_PREFIX == <<"r","s","s",":">>

create_job_record(entry, feed_url) ==
    [ company    |-> strip(Or(get(entry, "author", <<>>),
                           Or(get(entry, "dc_creator", <<>>),
                           Or(get(entry, "publisher", <<>>), <<"U","n","k","n","o","w","n">>)))),
      role       |-> strip(get(entry, "title", <<>>)),
      location   |-> extract_location(entry),
      deadline   |-> extract_deadline(entry),
      apply_link |-> strip(get(entry, "link", <<>>)),
      source     |-> SOURCE_PREFIX \o feed_url,
      notes      |-> JoinNotes(NotesParts(entry)) ]

\* the key without case folding
generate_job_key_case_sensitive(job) ==
    strip(job.company) \o <<"|">> \o strip(job.role) \o <<"|">> \o strip(job.apply_link)

generate_job_key(job) ==
    lower(strip(job.company)) \o <<"|">> \o lower(strip(job.role)) \o <<"|">> \o strip(job.apply_link)

\* the check with the link forgotten
MissingCriticalRoleOnly(job) == job.role = <<>>

\* line 193: not job["role"] or not job["apply_link"]
MissingCritical(job) == job.role = <<>> \/ job.apply_link = <<>>

\* the call with the library check left out
LibraryNeverMissing(installed) == FALSE

\* line 154: feedparser is None
LibraryMissing(installed) == ~installed

\* a duplicate that replaces the record kept for its key
AfterDuplicateOverwrite(js, job) ==
    [n \in 1..Len(js) |->
        IF generate_job_key(js[n]) = generate_job_key(job) THEN job ELSE js[n]]

\* lines 199-202: a duplicate leaves the accumulator as it is
AfterDuplicate(js, job) == js

\* jobs.insert(0, job)
AfterAcceptPrepend(js, job) == <<job>> \o js

\* line 205: jobs.append(job)
AfterAccept(js, job) == Append(js, job)

\* a failing feed that throws the accumulator away
AfterFeedErrorReset(js) == <<>>

\* lines 214-216: a failing feed is logged and the loop continues
AfterFeedError(js) == js

\* line 170: the delay is taken when the index of the address is positive
TakesDelay(index) == index > 0

FEED_REQUEST_DELAY == 1

-----------------------------------------------------------------------------
(* Inputs                                                                  *)

MaxFeeds == 2

MaxEntries == 2

MaxRuns == 2

UrlA == <<"h","t","t","p",":","/","/","a",".","i","o","/","f">>

UrlB == <<"h","t","t","p","s",":","/","/","b",".","i","o">>

UrlNoScheme == <<"/","/","b",".","i","o","/","f">>

UrlNoHost == <<"h","t","t","p",":","/","f">>

Urls == {UrlA, UrlB, UrlNoScheme, UrlNoHost}

EntryAcme ==
    [author |-> <<"A","c","m","e">>, title |-> <<"I","n","t","e","r","n">>, link |-> <<"u","/","1">>,
     summary |-> <<"D","e","a","d","l","i","n","e",":"," ","2","0","2","4","-","0","5","-","0","1">>]

\* same identity as EntryAcme up to case and surrounding blanks, other fields differ
EntryAcmeAgain ==
    [author |-> <<" ","A","C","M","E">>, title |-> <<"i","n","t","e","r","n"," ">>, link |-> <<" ","u","/","1">>,
     summary |-> <<"R","e","m","o","t","e">>, content |-> << <<"P","a","i","d">> >>]

EntryBlankTitle == [author |-> <<"A","c","m","e">>, title |-> <<" "," ">>, link |-> <<"u","/","1">>]

EntryNoLink == [author |-> <<"A","c","m","e">>, title |-> <<"I","n","t","e","r","n">>]

EntryNoneTitle == [author |-> <<"A","c","m","e">>, title |-> None, link |-> <<"u","/","1">>]

EntryCreator == [dc_creator |-> <<"a","|","b">>, title |-> <<"c">>, link |-> <<"u","/","2">>]

EntryPublisher == [publisher |-> <<"a">>, title |-> <<"b","|","c">>, link |-> <<"u","/","2">>]

\* an author of blanks only, and a publisher
EntryBlankAuthor == [author |-> <<" "," ">>, publisher |-> <<"P","u","b">>, title |-> <<"I","n","t","e","r","n">>, link |-> <<"u","/","3">>]

Entries ==
    {EntryAcme, EntryAcmeAgain, EntryBlankTitle, EntryNoLink, EntryNoneTitle,
     EntryCreator, EntryPublisher, EntryBlankAuthor}

SeqsUpTo(S, n) == UNION {[1..m -> S] : m \in 0..n}

-----------------------------------------------------------------------------
(* parse_feeds as a state machine                                          *)

VARIABLES
    feedparser,   \* TRUE when the optional library imported (lines 12-15)
    pc,           \* "idle", "loop" (line 164), "entries" (line 188), "done", "raised"
    feeds,        \* the argument of the call
    i,            \* index of the for loop over feeds, from 0
    entries,      \* parsed.entries of the feed being processed
    k,            \* number of entries of that feed already processed
    jobs,         \* the accumulator
    seen_jobs,    \* the set of identity keys
    result,       \* the returned list
    log,          \* calls made to time.sleep and feedparser.parse, in order
    served,       \* what each address visited so far turned out to be
    origin,       \* for each element of jobs, <<feed index, entry index>> it came from
    x_pc, x_entry, x_location, x_deadline,  \* the field extractor run on its own
    run,          \* number of the parse_feeds invocation, from 1
    previous,     \* what the invocation before this one was given and returned
    google_libs,  \* TRUE when the Google client libraries imported (sheets_client.py lines 9-18)
    sheet_exists, \* the spreadsheet has a sheet titled SHEET_NAME
    sheet_rows,   \* the rows of that sheet, top to bottom
    trackers,     \* number of SheetsTracker objects constructed so far
    api_log,      \* the Sheets API calls made so far and how each ended
    outcome       \* how the last constructor or add_job call ended

pvars == <<feedparser, pc, feeds, i, entries, k, jobs, seen_jobs, result, log, served, origin>>

xvars == <<x_pc, x_entry, x_location, x_deadline>>

hvars == <<run, previous>>

tvars == <<google_libs, sheet_exists, sheet_rows, trackers, api_log, outcome>>

vars == <<feedparser, pc, feeds, i, entries, k, jobs, seen_jobs, result, log, served, origin,
          x_pc, x_entry, x_location, x_deadline,
          run, previous, google_libs, sheet_exists, sheet_rows, trackers, api_log, outcome>>

XIdle ==
    /\ x_pc = "off"
    /\ x_entry = [summary |-> <<>>]
    /\ x_location = None
    /\ x_deadline = None

\* no invocation before the first one
HIdle ==
    /\ run = 1
    /\ previous = None

\* no tracker in use
TIdle ==
    /\ google_libs = TRUE
    /\ sheet_exists = FALSE
    /\ sheet_rows = <<>>
    /\ trackers = 0
    /\ api_log = <<>>
    /\ outcome = "none"

Idle ==
    /\ pc = "idle"
    /\ feeds = <<>>
    /\ i = 0
    /\ entries = <<>>
    /\ k = 0
    /\ jobs = <<>>
    /\ seen_jobs = {}
    /\ result = None
    /\ log = <<>>
    /\ served = <<>>
    /\ origin = <<>>

Init ==
    /\ feedparser \in BOOLEAN
    /\ Idle
    /\ XIdle
    /\ HIdle
    /\ TIdle

\* a seen-key set that outlives the call
NewSeenKept(old) == old

\* line 161: seen_jobs = set()
NewSeen(old) == {}

\* lines 151-162: the library check, the empty-list return, and the locals
\* of the new call
Invoke(fs) ==
    /\ feeds' = fs
    /\ IF LibraryMissing(feedparser)
       THEN pc' = "raised" /\ result' = None
       ELSE IF fs = <<>>
       THEN pc' = "done" /\ result' = <<>>
       ELSE pc' = "loop" /\ result' = None
    /\ jobs' = <<>>
    /\ seen_jobs' = NewSeen(seen_jobs)
    /\ i' = 0
    /\ entries' = <<>>
    /\ k' = 0
    /\ log' = <<>>
    /\ served' = <<>>
    /\ origin' = <<>>
    /\ UNCHANGED feedparser
    /\ UNCHANGED <<xvars, tvars>>

\* the first call of parse_feeds
Call(fs) ==
    /\ pc = "idle"
    /\ Invoke(fs)
    /\ UNCHANGED hvars

\* a later call of parse_feeds, after the one before it returned or raised
CallAgain(fs) ==
    /\ pc \in {"done", "raised"}
    /\ run < MaxRuns
    /\ run' = run + 1
    /\ previous' = [feeds |-> feeds, served |-> served, result |-> result]
    /\ Invoke(fs)

\* lines 164-167: an address that fails validation is skipped
SkipInvalid ==
    /\ pc = "loop"
    /\ i < Len(feeds)
    /\ ~is_valid_rss_url(feeds[i + 1])
    /\ i' = i + 1
    /\ served' = Append(served, [status |-> "invalid", entries |-> <<>>])
    /\ UNCHANGED <<feedparser, pc, feeds, entries, k, jobs, seen_jobs, result, log, origin>>
    /\ UNCHANGED <<xvars, hvars, tvars>>

\* lines 169-186 and 214-216: the delay, the fetch and its three outcomes:
\* an exception, no entries, or a non-empty list of entries (the bozo flag
\* of lines 178-179 only writes a log line and is left out)
FetchFeed(raises, es) ==
    /\ pc = "loop"
    /\ i < Len(feeds)
    /\ is_valid_rss_url(feeds[i + 1])
    /\ log' = log \o (IF TakesDelay(i) THEN << [op |-> "sleep", at |-> i, secs |-> FEED_REQUEST_DELAY] >> ELSE <<>>)
                  \o << [op |-> "parse", at |-> i, url |-> feeds[i + 1]] >>
    /\ IF raises
       THEN /\ jobs' = AfterFeedError(jobs)
            /\ served' = Append(served, [status |-> "raised", entries |-> <<>>])
            /\ i' = i + 1
            /\ UNCHANGED <<pc, entries, k, origin>>
       ELSE /\ served' = Append(served, [status |-> "ok", entries |-> es])
            /\ IF es = <<>>
               THEN i' = i + 1 /\ UNCHANGED <<pc, entries, k>>
               ELSE pc' = "entries" /\ entries' = es /\ k' = 0 /\ UNCHANGED i
            /\ UNCHANGED <<jobs, origin>>
    /\ UNCHANGED <<feedparser, feeds, seen_jobs, result>>
    /\ UNCHANGED <<xvars, hvars, tvars>>

\* an exception that leaves the loop over the entries of the feed
LastEntryOrError(raised, done, n) == raised \/ done + 1 >= n

\* lines 188 and 208-210: the `except` inside the loop only logs and
\* continues, so the loop ends after the n-th entry, raised or not
LastEntry(raised, done, n) == done + 1 >= n

\* lines 198-206: a key already seen skips the entry, a new key is recorded
\* and the record appended
Deduplicate(job, job_key) ==
    IF job_key \in seen_jobs
    THEN /\ jobs' = AfterDuplicate(jobs, job)
         /\ UNCHANGED <<seen_jobs, origin>>
    ELSE /\ seen_jobs' = seen_jobs \cup {job_key}
         /\ jobs' = AfterAccept(jobs, job)
         /\ origin' = Append(origin, <<i + 1, k + 1>>)

\* lines 192-206: the record built from the entry is dropped when a critical
\* field is missing, else it goes through the duplicate check
FilterEntry(job) ==
    IF MissingCritical(job)
    THEN UNCHANGED <<jobs, seen_jobs, origin>>
    ELSE Deduplicate(job, generate_job_key(job))

\* lines 188-212: one iteration of the loop over the entries; after the last
\* entry the outer loop moves to the next address
ProcessEntry ==
    /\ pc = "entries"
    /\ k < Len(entries)
    /\ IF create_job_record_raises(entries[k + 1])
       THEN UNCHANGED <<jobs, seen_jobs, origin>>
       ELSE FilterEntry(create_job_record(entries[k + 1], feeds[i + 1]))
    /\ IF ~LastEntry(create_job_record_raises(entries[k + 1]), k, Len(entries))
       THEN k' = k + 1 /\ UNCHANGED <<pc, i, entries>>
       ELSE pc' = "loop" /\ i' = i + 1 /\ k' = 0 /\ entries' = <<>>
    /\ UNCHANGED <<feedparser, feeds, result, log, served>>
    /\ UNCHANGED <<xvars, hvars, tvars>>

\* lines 218-219
Return ==
    /\ pc = "loop"
    /\ i = Len(feeds)
    /\ pc' = "done"
    /\ result' = jobs
    /\ UNCHANGED <<feedparser, feeds, i, entries, k, jobs, seen_jobs, log, served, origin>>
    /\ UNCHANGED <<xvars, hvars, tvars>>

FeedLists == SeqsUpTo(Urls, MaxFeeds)

FeedContents == SeqsUpTo(Entries, MaxEntries)

Next ==
    \/ \E fs \in FeedLists : Call(fs)
    \/ SkipInvalid
    \/ \E es \in FeedContents : FetchFeed(FALSE, es)
    \/ FetchFeed(TRUE, <<>>)
    \/ ProcessEntry
    \/ Return

Spec == Init /\ [][Next]_vars

-----------------------------------------------------------------------------
(* The field extractor on its own: lines 114-115 of _create_job_record     *)
(* applied to entries whose text is put together from fragments            *)

MaxFrags == 3

LabelFrags == { <<"D","e","a","d","l","i","n","e",":"," ">>, <<"A","p","p","l","y"," ","b","y",":"," ">>, <<"a","p","p","l","i","c","a","t","i","o","n","s"," ","c","l","o","s","e",":">>, <<"L","o","c","a","t","i","o","n",":"," ">> }

DateFrags == { <<"2","0","2","4","-","0","5","-","0","1">>, <<"5","/","1","/","2","0","2","4">>, <<"M","a","y"," ","0","1",","," ","2","0","2","4">>, <<"J","u","n"," ","3",","," ","2","0","2","4">>, <<"2","0","2","4","-","0","2","-","3","0">> }

OtherFrags == { <<"n","e","x","t"," ","F","r","i","d","a","y">>, <<"S","e","a","t","t","l","e",","," ","W","A">>, <<"\n">> }

Frags == LabelFrags \cup DateFrags \cup OtherFrags

RECURSIVE Concat(_)
Concat(parts) == IF parts = <<>> THEN <<>> ELSE Head(parts) \o Concat(Tail(parts))

\* the fragments before position j are the summary, the rest the description;
\* a part with no fragment is a key the entry does not have
TextEntry(frags, j) ==
    LET s == Concat(SubSeq(frags, 1, j))
        d == Concat(SubSeq(frags, j + 1, Len(frags)))
    IN  CASE j = 0          -> [description |-> d]
          [] j = Len(frags) -> [summary |-> s]
          [] OTHER          -> [summary |-> s, description |-> d]

TextEntries ==
    {TextEntry(frags, j) : <<frags, j>> \in
        {<<f, n>> \in SeqsUpTo(Frags, MaxFrags) \X (0..MaxFrags) : n <= Len(f) /\ f # <<>>}}

\* entries with the structured fields _extract_location reads first and last
StructuredEntries ==
    { [summary |-> <<"L","o","c","a","t","i","o","n",":"," ","S","e","a","t","t","l","e",","," ","W","A">>, location |-> <<" ","O","s","l","o"," ">>],
      [summary |-> <<"L","o","c","a","t","i","o","n",":"," ","S","e","a","t","t","l","e",","," ","W","A">>, location |-> <<>>],
      [summary |-> <<"D","e","a","d","l","i","n","e",":"," ","n","e","x","t"," ","F","r","i","d","a","y">>, tags |-> << <<"N","Y","C">>, <<"R","e","m","o","t","e","-","O","K"," ">> >>],
      [summary |-> <<"R","e","m","o","t","e">>, tags |-> << <<"c","i","t","y",":","O","s","l","o">> >>],
      [tags |-> << <<"N","Y","C">> >>] }

XInit ==
    /\ feedparser = TRUE
    /\ Idle
    /\ HIdle
    /\ TIdle
    /\ x_pc = "start"
    /\ x_entry \in TextEntries \cup StructuredEntries
    /\ x_location = None
    /\ x_deadline = None

\* line 114: location = _extract_location(entry)
ExtractLocation ==
    /\ x_pc = "start"
    /\ x_location' = extract_location(x_entry)
    /\ x_pc' = "located"
    /\ UNCHANGED <<x_entry, x_deadline>>
    /\ UNCHANGED <<pvars, hvars, tvars>>

\* line 115: deadline = _extract_deadline(entry)
ExtractDeadline ==
    /\ x_pc = "located"
    /\ x_deadline' = extract_deadline(x_entry)
    /\ x_pc' = "done"
    /\ UNCHANGED <<x_entry, x_location>>
    /\ UNCHANGED <<pvars, hvars, tvars>>

XNext == ExtractLocation \/ ExtractDeadline

ExtSpec == XInit /\ [][XNext]_vars

-----------------------------------------------------------------------------
(* Properties of parse_feeds                                               *)

\* the entry served at position e of the f-th address
EntryAt(f, e) == served[f].entries[e]

\* positions <<f, e>> of the entries the run has finished processing
Processed ==
    {<<f, e>> \in (1..Len(served)) \X (1..MaxEntries + 1) :
        /\ e <= Len(served[f].entries)
        /\ (pc = "entries" /\ f = i + 1) => e <= k}

Before(p, q) == p[1] < q[1] \/ (p[1] = q[1] /\ p[2] < q[2])

\* a key is absent, None, empty or whitespace-only
Blank(entry, key) ==
    \/ key \notin DOMAIN entry
    \/ entry[key] = None
    \/ strip(entry[key]) = <<>>

\* the identity of a record: lower-cased trimmed company and role, trimmed link
Triple(job) ==
    << lower(strip(job.company)), lower(strip(job.role)), strip(job.apply_link) >>

\* the entry yields a record the pipeline may accept
Usable(entry) == ~create_job_record_raises(entry) /\ ~Blank(entry, "title") /\ ~Blank(entry, "link")

HasSchemeAndHost(url) ==
    /\ ~urlparse(url).raises
    /\ urlparse(url).scheme # <<>>
    /\ urlparse(url).netloc # <<>>

Returned == pc = "done" /\ feeds # <<>>

\* C1: every accepted record has a role and an apply_link that are non-empty
\* after trimming, in the accumulator at every point and in the returned
\* list, and the entry it was built from has a title and a link that are
\* present and not blank.
C1_RequiredFields ==
    /\ \A n \in 1..Len(jobs) :
          /\ strip(jobs[n].role) # <<>>
          /\ strip(jobs[n].apply_link) # <<>>
          /\ ~Blank(EntryAt(origin[n][1], origin[n][2]), "title")
          /\ ~Blank(EntryAt(origin[n][1], origin[n][2]), "link")
    /\ pc = "done" =>
          \A n \in 1..Len(result) :
              strip(result[n].role) # <<>> /\ strip(result[n].apply_link) # <<>>

\* a run that was served a blank title and a missing link and returned a record
C1_Witness ==
    /\ Returned
    /\ Len(result) >= 1
    /\ \E p \in Processed : EntryAt(p[1], p[2]) = EntryBlankTitle
    /\ \E p \in Processed : EntryAt(p[1], p[2]) = EntryNoLink

\* C2: at every point of a run, and in the returned list, no two accepted
\* records have the same (lower-cased trimmed company, lower-cased trimmed
\* role, trimmed apply_link) triple.
C2_NoSharedIdentity ==
    /\ \A m, n \in 1..Len(jobs) : m # n => Triple(jobs[m]) # Triple(jobs[n])
    /\ pc = "done" =>
          \A m, n \in 1..Len(result) : m # n => Triple(result[m]) # Triple(result[n])

\* the same identity was served twice in the first feed and once more in the
\* second, under another address, and one record was returned
C2_Witness ==
    /\ Returned
    /\ Len(served) = 2
    /\ feeds[1] # feeds[2]
    /\ served[1].entries = <<EntryAcme, EntryAcmeAgain>>
    /\ served[2].entries = <<EntryAcmeAgain>>
    /\ Len(result) = 1

\* C3: a step never changes or removes a record already kept, and a record
\* is added only as the one built from the entry being processed, when no
\* entry processed earlier in the run gave a record of the same identity: the
\* record kept for an identity is the first-encountered one, as built.
C3_Step ==
    /\ \A n \in 1..Len(jobs) : n <= Len(jobs') /\ jobs'[n] = jobs[n]
    /\ Len(jobs') > Len(jobs) =>
          /\ pc = "entries"
          /\ Len(jobs') = Len(jobs) + 1
          /\ jobs'[Len(jobs')] = create_job_record(entries[k + 1], feeds[i + 1])
          /\ \A p \in Processed :
                Usable(EntryAt(p[1], p[2])) =>
                    Triple(create_job_record(EntryAt(p[1], p[2]), feeds[p[1]]))
                        # Triple(jobs'[Len(jobs')])

C3_FirstEncounteredKept == [][C3_Step]_vars

\* a later duplicate with other notes, location, deadline and source feed
\* was processed and the record kept is the first entry's
C3_Witness ==
    /\ Returned
    /\ Len(served) = 2
    /\ feeds[1] # feeds[2]
    /\ served[1].entries = <<EntryAcme>>
    /\ served[2].entries = <<EntryAcmeAgain>>
    /\ result = << create_job_record(EntryAcme, feeds[1]) >>
    /\ create_job_record(EntryAcmeAgain, feeds[2]).notes # result[1].notes
    /\ create_job_record(EntryAcmeAgain, feeds[2]).location # result[1].location
    /\ create_job_record(EntryAcmeAgain, feeds[2]).deadline # result[1].deadline

\* C4: the accepted records are in first-seen order: each is the record of
\* the entry it came from, and the entries they came from are in increasing
\* order of feed position, then of position within the feed.
C4_FirstSeenOrder ==
    /\ Len(origin) = Len(jobs)
    /\ \A n \in 1..Len(jobs) :
          /\ origin[n] \in Processed
          /\ jobs[n] = create_job_record(EntryAt(origin[n][1], origin[n][2]), feeds[origin[n][1]])
    /\ \A m, n \in 1..Len(jobs) : m < n => Before(origin[m], origin[n])
    /\ pc = "done" => result = jobs

\* records of both feeds were returned, with rejected entries between them
C4_Witness ==
    /\ Returned
    /\ Len(served) = 2
    /\ served[1].entries = <<EntryBlankTitle, EntryAcme>>
    /\ served[2].entries = <<EntryAcmeAgain, EntryCreator>>
    /\ result = << create_job_record(EntryAcme, feeds[1]),
                   create_job_record(EntryCreator, feeds[2]) >>

RECURSIVE Collect(_, _, _, _)
\* what a run returns for the entries of the listed feeds: the records of
\* the usable entries, in order, without those whose key an earlier one has
Collect(fs, f, e, acc) ==
    IF f > Len(fs) THEN acc
    ELSE IF e > Len(fs[f].entries) THEN Collect(fs, f + 1, 1, acc)
    ELSE LET entry == fs[f].entries[e]
             job   == create_job_record(entry, fs[f].url)
         IN  IF \/ ~Usable(entry)
                \/ \E n \in 1..Len(acc) : generate_job_key(acc[n]) = generate_job_key(job)
             THEN Collect(fs, f, e + 1, acc)
             ELSE Collect(fs, f, e + 1, Append(acc, job))

\* the addresses of the run with what they served, failing feeds left out
Surviving ==
    SelectSeq([f \in 1..Len(served) |->
                  [url |-> feeds[f], status |-> served[f].status, entries |-> served[f].entries]],
              LAMBDA x : x.status # "raised")

\* C5: with the library installed the call never raises; a feed whose fetch
\* raises leaves the records accepted so far as they are and the run goes on
\* to the next address; the returned list is what the run returns for the
\* list without the failing feeds, and every address has been visited.
C5_FailingFeedSkipped ==
    /\ feedparser => pc # "raised"
    /\ pc = "done" /\ feeds # <<>> =>
          /\ Len(served) = Len(feeds)
          /\ result = Collect(Surviving, 1, 1, <<>>)

\* a feed that raised, followed by a feed with two distinct valid entries,
\* returned exactly those two
C5_Witness ==
    /\ Returned
    /\ Len(served) = 2
    /\ served[1].status = "raised"
    /\ served[2].entries = <<EntryAcme, EntryCreator>>
    /\ result = << create_job_record(EntryAcme, feeds[2]),
                   create_job_record(EntryCreator, feeds[2]) >>

\* C6: no fetch and no delay is ever made for an address that lacks a scheme
\* or a host, no record comes from one, and at the end of the run every
\* address with both has been fetched.
C6_InvalidAddressSkipped ==
    /\ \A n \in 1..Len(log) : HasSchemeAndHost(feeds[log[n].at + 1])
    /\ \A n \in 1..Len(origin) : HasSchemeAndHost(feeds[origin[n][1]])
    /\ \A f \in 1..Len(served) :
          ~HasSchemeAndHost(feeds[f]) => served[f].status = "invalid"
    /\ pc = "done" =>
          \A f \in 1..Len(feeds) :
              HasSchemeAndHost(feeds[f]) =>
                  \E n \in 1..Len(log) : log[n].op = "parse" /\ log[n].at = f - 1

\* a valid address standing after one with no host was fetched and gave a record
C6_Witness ==
    /\ Returned
    /\ feeds = <<UrlNoHost, UrlA>>
    /\ Len(result) >= 1
    /\ Len(log) = 2

\* C7 as claimed: a call with an empty list returns an empty list whatever
\* the environment, with no delay, no fetch and no error.
C7_EmptyListAlwaysReturns ==
    (pc # "idle" /\ feeds = <<>>) =>
        pc = "done" /\ result = <<>> /\ log = <<>>

\* C7 as the code has it: a call with an empty list returns an empty list at
\* once, with no delay and no fetch, when the library is installed, and
\* raises ModuleNotFoundError at once when it is not.
C7_EmptyListReturnsOrRaises ==
    (pc # "idle" /\ feeds = <<>>) =>
        /\ log = <<>> /\ served = <<>> /\ jobs = <<>>
        /\ feedparser => pc = "done" /\ result = <<>>
        /\ ~feedparser => pc = "raised" /\ result = None

C7_Witness == pc = "done" /\ feeds = <<>> /\ feedparser /\ result = <<>> /\ log = <<>>

-----------------------------------------------------------------------------
(* Properties of the field extractor                                       *)

\* number of positions of the lower-cased content where a deadline label stands
DeadlineLabelCount(content) ==
    Cardinality({<<n, p>> \in (1..Len(DEADLINE_PATTERNS)) \X (1..Len(content)) :
                    LitAt(DEADLINE_PATTERNS[n].label, lower(content), p)})

\* the text stands in the content right after the label and optional blanks
LabelledAt(label, text, content) ==
    \E p \in 1..Len(content) :
        /\ LitAt(label, lower(content), p)
        /\ LitAt(text, content, SkipSpaceRight(content, p + Len(label)))

\* dates in the four formats, with the ISO date each one denotes
SupportedDates ==
    { [text |-> <<"2","0","2","4","-","0","5","-","0","1">>,   iso |-> <<"2","0","2","4","-","0","5","-","0","1">>],
      [text |-> <<"5","/","1","/","2","0","2","4">>,     iso |-> <<"2","0","2","4","-","0","5","-","0","1">>],
      [text |-> <<"M","a","y"," ","0","1",","," ","2","0","2","4">>, iso |-> <<"2","0","2","4","-","0","5","-","0","1">>],
      [text |-> <<"J","u","n"," ","3",","," ","2","0","2","4">>,  iso |-> <<"2","0","2","4","-","0","6","-","0","3">>] }

\* C8 as claimed: with no structured location, text holding the labelled
\* location "Location: Seattle, WA" gives the location "Seattle, WA".
C8_LabelledLocationFull ==
    ( /\ x_pc \in {"located", "done"}
      /\ "location" \notin DOMAIN x_entry
      /\ LabelledAt(<<"l","o","c","a","t","i","o","n",":">>, <<"S","e","a","t","t","l","e",","," ","W","A">>, Content(x_entry)) )
    => x_location = <<"S","e","a","t","t","l","e",","," ","W","A">>

\* C9 as claimed: text holding one labelled deadline, followed by a date in
\* one of the four formats, gives that date in ISO form whatever else the
\* text holds.
C9_LabelledDateIso ==
    x_pc = "done" =>
        \A d \in SupportedDates : \A n \in 1..Len(DEADLINE_PATTERNS) :
            ( /\ DeadlineLabelCount(Content(x_entry)) = 1
              /\ LabelledAt(DEADLINE_PATTERNS[n].label, d.text, Content(x_entry)) )
            => x_deadline = d.iso

\* the trimmed capture of the n-th deadline pattern parses in no format
Unparseable(text) == \A f \in 1..Len(DATE_FORMATS) : ~strptime(text, DATE_FORMATS[f]).ok

-----------------------------------------------------------------------------
(* SheetsTracker of src/tracker/sheets_client.py: the constructor with     *)
(* _ensure_sheet, and add_job, over one spreadsheet reached through the    *)
(* Sheets API.  Every API request (.execute()) either succeeds or raises;  *)
(* the tracker catches nothing.                                            *)

SHEET_NAME == "Internships"

COLUMNS ==
    << "added_at", "company", "role", "location", "deadline", "apply_link",
       "source", "status", "resume_file", "cover_letter_file", "notes" >>

MaxApiCalls == 6

\* datetime.utcnow().isoformat() at the n-th API request
UtcNow(n) ==
    << "2024-05-01T10:00:01", "2024-05-01T10:00:02", "2024-05-01T10:00:03",
       "2024-05-01T10:00:04", "2024-05-01T10:00:05", "2024-05-01T10:00:06",
       "2024-05-01T10:00:07", "2024-05-01T10:00:08", "2024-05-01T10:00:09",
       "2024-05-01T10:00:10", "2024-05-01T10:00:11", "2024-05-01T10:00:12" >>[n]

JobRss ==
    [company |-> "Acme", role |-> "Intern", location |-> "Remote",
     deadline |-> "2024-05-01", apply_link |-> "u/1",
     source |-> "rss:http://a.io/f", notes |-> "Paid"]

\* a mapping that brings a status of its own
JobApplied ==
    [company |-> "Acme", role |-> "Intern", status |-> "applied",
     resume_file |-> "r1.pdf"]

JobBare == [role |-> "Intern"]

Jobs == {JobRss, JobApplied, JobBare}

\* the spreadsheet_id argument: empty (None is falsy in the same way) or the
\* configured id
SpreadsheetIds == {"", "sheet-1"}

\* where a constructor call meets a failure, if anywhere
Faults == {"none", "auth", "get", "addSheet", "append"}

\* lines 83-95: the row of add_job
JobRow(job, now) ==
    << now,
       get(job, "company", ""),
       get(job, "role", ""),
       get(job, "location", ""),
       get(job, "deadline", ""),
       get(job, "apply_link", ""),
       get(job, "source", ""),
       "new",
       get(job, "resume_file", ""),
       get(job, "cover_letter_file", ""),
       get(job, "notes", "") >>

\* lines 68-78: values().append at SHEET_NAME!A1 puts the rows after the
\* last row of the sheet
append_rows(sheet, rows) == sheet \o rows

Request(call, ok) == [call |-> call, ok |-> ok]

\* lines 30-40 and 58-66: SheetsTracker(spreadsheet_id)
Construct(spreadsheet_id, fault) ==
    /\ Len(api_log) < MaxApiCalls
    /\ IF ~google_libs
       THEN /\ outcome' = "ModuleNotFoundError"
            /\ UNCHANGED <<sheet_exists, sheet_rows, trackers, api_log>>
       ELSE IF spreadsheet_id = ""
       THEN /\ outcome' = "ValueError"
            /\ UNCHANGED <<sheet_exists, sheet_rows, trackers, api_log>>
       ELSE IF fault = "auth"
       THEN /\ outcome' = "AuthError"
            /\ UNCHANGED <<sheet_exists, sheet_rows, trackers, api_log>>
       ELSE IF fault = "get"
       THEN /\ outcome' = "HttpError"
            /\ api_log' = api_log \o << Request("get", FALSE) >>
            /\ UNCHANGED <<sheet_exists, sheet_rows, trackers>>
       ELSE IF sheet_exists
       THEN /\ outcome' = "ok"
            /\ api_log' = api_log \o << Request("get", TRUE) >>
            /\ trackers' = trackers + 1
            /\ UNCHANGED <<sheet_exists, sheet_rows>>
       ELSE IF fault = "addSheet"
       THEN /\ outcome' = "HttpError"
            /\ api_log' = api_log \o << Request("get", TRUE), Request("addSheet", FALSE) >>
            /\ UNCHANGED <<sheet_exists, sheet_rows, trackers>>
       ELSE IF fault = "append"
       THEN /\ outcome' = "HttpError"
            /\ api_log' = api_log \o << Request("get", TRUE), Request("addSheet", TRUE),
                                       Request("append", FALSE) >>
            /\ sheet_exists' = TRUE
            /\ UNCHANGED <<sheet_rows, trackers>>
       ELSE /\ outcome' = "ok"
            /\ api_log' = api_log \o << Request("get", TRUE), Request("addSheet", TRUE),
                                       Request("append", TRUE) >>
            /\ sheet_exists' = TRUE
            /\ sheet_rows' = append_rows(sheet_rows, << COLUMNS >>)
            /\ trackers' = trackers + 1
    /\ UNCHANGED google_libs
    /\ UNCHANGED <<pvars, xvars, hvars>>

\* lines 80-96: add_job on a constructed tracker
AddJob(job, fails) ==
    /\ trackers > 0
    /\ Len(api_log) < MaxApiCalls
    /\ IF fails
       THEN /\ outcome' = "HttpError"
            /\ api_log' = api_log \o << Request("append", FALSE) >>
            /\ UNCHANGED sheet_rows
       ELSE /\ outcome' = "ok"
            /\ api_log' = api_log \o << Request("append", TRUE) >>
            /\ sheet_rows' = append_rows(sheet_rows, << JobRow(job, UtcNow(Len(api_log) + 1)) >>)
    /\ UNCHANGED <<google_libs, sheet_exists, trackers>>
    /\ UNCHANGED <<pvars, xvars, hvars>>

\* a spreadsheet without the target sheet, no tracker constructed yet
TInit ==
    /\ feedparser = TRUE
    /\ Idle
    /\ XIdle
    /\ HIdle
    /\ google_libs \in BOOLEAN
    /\ sheet_exists = FALSE
    /\ sheet_rows = <<>>
    /\ trackers = 0
    /\ api_log = <<>>
    /\ outcome = "none"

TNext ==
    \/ \E id \in SpreadsheetIds, fault \in Faults : Construct(id, fault)
    \/ \E job \in Jobs, fails \in BOOLEAN : AddJob(job, fails)

SheetSpec == TInit /\ [][TNext]_vars

HeaderRows == {n \in 1..Len(sheet_rows) : sheet_rows[n] = COLUMNS}

SheetsAdded == {n \in 1..Len(api_log) : api_log[n] = Request("addSheet", TRUE)}

\* C11: starting from a spreadsheet without the target sheet, the sheet is
\* created at most once; once a tracker has been constructed the header row
\* has been written exactly once and is the first row, before any data row;
\* a construction that finds the sheet writes no header; every row add_job
\* appended has "new" in the status column
C11_HeaderOnceBeforeData ==
    /\ Cardinality(SheetsAdded) <= 1
    /\ Cardinality(HeaderRows) <= 1
    /\ trackers > 0 => HeaderRows = {1}
    /\ sheet_rows # <<>> => sheet_rows[1] = COLUMNS
    /\ \A n \in 1..Len(sheet_rows) : n \notin HeaderRows => sheet_rows[n][8] = "new"

-----------------------------------------------------------------------------
(* Properties of the delay, of failing entries, of the company field, of   *)
(* the identity key and of repeated invocations                            *)

Sleeps == {n \in 1..Len(log) : log[n].op = "sleep"}

Parses == {n \in 1..Len(log) : log[n].op = "parse"}

\* C12: the delay is taken only between fetch attempts: every delay of the
\* run has a fetch attempt before it and the next fetch attempt right after
\* it, and the delays number one less than the fetch attempts (none when
\* nothing is fetched).
C12_DelayOnlyBetweenFetches ==
    /\ \A n \in Sleeps :
          /\ \E m \in Parses : m < n
          /\ n + 1 \in Parses
    /\ Cardinality(Sleeps) = IF Parses = {} THEN 0 ELSE Cardinality(Parses) - 1

\* the addresses with what they served, without the failing feeds and
\* without the entries whose record cannot be built
CleanRun(fs, sv) ==
    SelectSeq([f \in 1..Len(sv) |->
                  [url |-> fs[f], status |-> sv[f].status,
                   entries |-> SelectSeq(sv[f].entries,
                                         LAMBDA e : ~create_job_record_raises(e))]],
              LAMBDA x : x.status # "raised")

\* C13: the step that processes an entry whose record raises leaves the
\* accepted records and the seen-key set as they were, does not end the
\* call with an exception, and goes on to the next entry of the same feed,
\* or after the last entry to the next address; and the list a run returns
\* is the one it returns for the same feeds with the raising entries
\* taken out.
C13_Step ==
    /\ (pc = "entries" /\ create_job_record_raises(entries[k + 1])) =>
          /\ jobs' = jobs
          /\ seen_jobs' = seen_jobs
          /\ feeds' = feeds
          /\ IF k + 1 < Len(entries)
             THEN pc' = "entries" /\ entries' = entries /\ k' = k + 1 /\ i' = i
             ELSE pc' = "loop" /\ i' = i + 1
    /\ (pc' = "done" /\ feeds' # <<>>) =>
          /\ Len(served') = Len(feeds')
          /\ result' = Collect(CleanRun(feeds', served'), 1, 1, <<>>)

C13_EntryErrorIsolated == [][C13_Step]_vars

\* raising entries stood after an accepted entry and before an accepted
\* entry of a later feed, and both records were returned
C13_Witness ==
    /\ Returned
    /\ Len(served) = 2
    /\ served[1].entries = <<EntryAcme, EntryNoneTitle>>
    /\ served[2].entries = <<EntryNoneTitle, EntryCreator>>
    /\ result = << create_job_record(EntryAcme, feeds[1]),
                   create_job_record(EntryCreator, feeds[2]) >>

RECURSIVE FirstUsable(_, _, _)
\* the trimmed value of the first of the keys, from the n-th on, that the
\* entry has with a value that is not blank; "Unknown" when there is none
FirstUsable(entry, keys, n) ==
    IF n > Len(keys) THEN <<"U","n","k","n","o","w","n">>
    ELSE IF ~Blank(entry, keys[n]) THEN strip(entry[keys[n]])
    ELSE FirstUsable(entry, keys, n + 1)

ExpectedCompany(entry) == FirstUsable(entry, << "author", "dc_creator", "publisher" >>, 1)

\* C14: every accepted record has a company that is not empty: the first
\* value that is not blank among the author, creator and publisher of its
\* entry, and "Unknown" when none of them has one.
C14_CompanyNeverEmpty ==
    \A n \in 1..Len(jobs) :
        /\ jobs[n].company # <<>>
        /\ jobs[n].company = ExpectedCompany(EntryAt(origin[n][1], origin[n][2]))

\* C15: a candidate with a role and an apply_link is rejected as a duplicate
\* only when a record accepted earlier in the run has its (lower-cased
\* trimmed company, lower-cased trimmed role, trimmed apply_link) triple:
\* every usable entry processed so far has its triple among the accepted
\* records, at its own position or at an earlier one, whatever the fields
\* hold, the delimiter "|" included.
C15_RejectedOnlyForSameTriple ==
    \A p \in Processed :
        Usable(EntryAt(p[1], p[2])) =>
            \E n \in 1..Len(jobs) :
                /\ origin[n] = p \/ Before(origin[n], p)
                /\ Triple(jobs[n]) = Triple(create_job_record(EntryAt(p[1], p[2]), feeds[p[1]]))

-----------------------------------------------------------------------------
(* parse_feeds called again after it returned or raised                    *)

RunUrls == {UrlA, UrlNoHost}

RunEntries == {EntryAcme, EntryCreator}

RunFeedLists == SeqsUpTo(RunUrls, MaxFeeds)

RunFeedContents == SeqsUpTo(RunEntries, MaxEntries)

RunsNext ==
    \/ \E fs \in RunFeedLists : Call(fs)
    \/ \E fs \in RunFeedLists : CallAgain(fs)
    \/ SkipInvalid
    \/ \E es \in RunFeedContents : FetchFeed(FALSE, es)
    \/ FetchFeed(TRUE, <<>>)
    \/ ProcessEntry
    \/ Return

RunsSpec == Init /\ [][RunsNext]_vars

\* C16: no deduplication state survives a call: at the start of every
\* invocation the accumulator and the seen-key set are empty, the list an
\* invocation returns is the one collected from its own addresses and feed
\* contents, and an invocation given the addresses and feed contents of the
\* one before it returns the same records again.
C16_NoStateAcrossRuns ==
    /\ (pc = "loop" /\ served = <<>>) => jobs = <<>> /\ seen_jobs = {}
    /\ (pc = "done" /\ feeds # <<>>) => result = Collect(Surviving, 1, 1, <<>>)
    /\ (run > 1 /\ pc = "done" /\ feeds = previous.feeds /\ served = previous.served) =>
          result = previous.result

\* a second invocation was served what the first was and returned its two
\* records again
C16_Witness ==
    /\ run = 2
    /\ pc = "done"
    /\ feeds = previous.feeds
    /\ served = previous.served
    /\ Len(result) = 2
    /\ result = previous.result
====
